---------------------------- MODULE Spec2Model ----------------------------
(***************************************************************************)
(* A state-machine model of notebooks/part-1/deployment/                   *)
(* pytorch_mnist_training.py: the command-line parse, the set-up, the      *)
(* MLflow run with its epoch loop (train, test, log_scalar, log_weights),  *)
(* the upload of the TensorBoard events and of the scripted model, the     *)
(* PytorchModelWrapper that serves the saved model, and the pure function  *)
(* add_libraries_to_conda_env.                                             *)
(*                                                                         *)
(* Tensors are abstracted: the model's parameters are represented by the   *)
(* number of optimizer steps applied to them, a metric's value by the      *)
(* parameter version it was computed on, and an image by a pixel code.     *)
(***************************************************************************)
EXTENDS Integers, Sequences, FiniteSets, TLC

(* ------------------------------ bounds ------------------------------ *)
MaxEpochs == 2
MaxBatch == 2
MaxN == 3
MaxLog == 2
MaxRows == 2
MaxDeps == 3
MaxLibs == 2

(* ----------------------- program constants -------------------------- *)
\* mlflow.log_metric(name, value) is called without a step: the tracking
\* store records the metric at its default step.
DefaultStep == 0
\* nn.Conv2d(1, 10, kernel_size=5), nn.Conv2d(10, 20, kernel_size=5),
\* F.max_pool2d(..., 2), x.view(-1, 320), nn.Linear(50, 10)
KernelSize == 5
PoolSize == 2
Conv2Channels == 20
FcIn == 320
NumClasses == 10

VARIABLES
    args,       \* the command line, one raw token per option
    trainN,     \* len(train_loader.dataset)
    pc,         \* the script's position
    cause,      \* why the run aborted: "none", "config" or "external"
    runStarted, \* mlflow.start_run() has been entered
    writer,     \* the module-level writer: "None" or "open"
    training,   \* model.training
    params,     \* the model's parameters (their version)
    optSteps,   \* optimizer.step() calls made
    epochIter,  \* the epochs the for loop of line 229 has yet to yield
    epoch,      \* the loop variable of line 229
    remaining,  \* the examples train_loader's iterator has yet to yield
    enumNext,   \* the index enumerate() gives the next batch
    batch_idx,  \* the loop variable of line 132
    loss,       \* the loss of the current batch
    call,       \* the arguments of the log_scalar call in progress
    tb,         \* the calls received by the SummaryWriter, in call order
    mlf,        \* the metrics recorded by the tracking store, in call order
    trace,      \* the training batches and evaluation passes executed
    upEvents,   \* uploads of the "events" artifact group
    upModel,    \* uploads of the "pytorch-model" artifact group
    saved,      \* scripted_model.pth: NoModel or the saved module
    manifest,   \* conda_env of line 246: the merge's result
    registered, \* the model logged as "pytorch-model": its artifact and env
    wrapper,    \* PytorchModelWrapper.model: NoModel until load_context
    last,       \* the last predict call: its input and its outcome
    envIn,      \* add_libraries_to_conda_env: the _conda_env argument
    libsIn,     \* add_libraries_to_conda_env: the libraries argument
    depsIn,     \* add_libraries_to_conda_env: the conda_dependencies argument
    envOut      \* add_libraries_to_conda_env: the outcome of the call

vars == <<args, trainN, pc, cause, runStarted, writer, training, params,
          optSteps, epochIter, epoch, remaining, enumNext, batch_idx, loss,
          call, tb, mlf, trace, upEvents, upModel, saved, manifest,
          registered, wrapper, last, envIn, libsIn, depsIn, envOut>>

runVars == <<args, trainN, pc, cause, runStarted, writer, training, params,
             optSteps, epochIter, epoch, remaining, enumNext, batch_idx,
             loss, call, tb, mlf, trace, upEvents, upModel, saved, manifest,
             registered>>
serveVars == <<wrapper, last>>
rest == <<manifest, registered, wrapper, last, envIn, libsIn, depsIn, envOut>>
envVars == <<envIn, libsIn, depsIn, envOut>>

(* ------------------------- command line ----------------------------- *)
\* A raw token: a number (lr and momentum in hundredths), or text that
\* int()/float() rejects.
Tok(v) == [int |-> TRUE, val |-> v]
BadTok == [int |-> FALSE, val |-> 0]

IntToks(lo, hi) == {Tok(v) : v \in lo..hi} \cup {BadTok}

ArgSpace ==
    [batch_size      : IntToks(-1, MaxBatch),
     test_batch_size : {BadTok, Tok(0), Tok(1)},
     epochs          : IntToks(-1, MaxEpochs),
     lr              : {BadTok, Tok(-1), Tok(1)},
     momentum        : {BadTok, Tok(-1), Tok(1)},
     enable_cuda     : {"True", "False", "yes"},
     seed            : {BadTok, Tok(1)},
     log_interval    : IntToks(-2, MaxLog)]

\* parser.parse_args(): every type=int / type=float token converts and
\* --enable-cuda is one of its choices.
ParseOk(a) ==
    /\ a.batch_size.int
    /\ a.test_batch_size.int
    /\ a.epochs.int
    /\ a.lr.int
    /\ a.momentum.int
    /\ a.enable_cuda \in {"True", "False"}
    /\ a.seed.int
    /\ a.log_interval.int

\* DataLoader(batch_size=...) and optim.SGD(lr=..., momentum=...) reject
\* these values when they are constructed.
SetupOk(a) ==
    /\ a.batch_size.val > 0
    /\ a.test_batch_size.val > 0
    /\ a.lr.val >= 0
    /\ a.momentum.val >= 0

(* --------------------------- helpers -------------------------------- *)
Min(a, b) == IF a <= b THEN a ELSE b

\* range(a, b + 1) as the sequence a for loop walks.
RangeSeq(a, b) == [i \in 1..(IF b >= a THEN b - a + 1 ELSE 0) |-> a + i - 1]

\* range(args.epochs + 1): the loop starts at 0.
EpochRangeFromZero(n) == RangeSeq(0, n)

\* range(1, args.epochs + 1)
EpochRange(n) == RangeSeq(1, n)

\* len(train_loader): a DataLoader without drop_last has ceil(N / B) batches.
LoaderLen(n, b) == (n + b - 1) \div b

\* An iterator that yields all that is left as one batch.
NextBatchAll(left, b) == left

\* The size of the batch the iterator yields next.
NextBatch(left, b) == Min(b, left)

\* Python's a % b for a >= 0 and b # 0: the result has the sign of b.
PyMod(a, b) ==
    IF b > 0 THEN a % b
    ELSE IF a % (-b) = 0 THEN 0 ELSE (a % (-b)) + b

HistogramNames ==
    <<"weights/conv1/weight", "weights/conv1/bias",
      "weights/conv2/weight", "weights/conv2/bias",
      "weights/fc1/weight", "weights/fc1/bias",
      "weights/fc2/weight", "weights/fc2/bias">>

NoCall == [name |-> "none", value |-> 0, step |-> 0, ret |-> "none"]

\* A step that forgets the epoch.
TrainStepIndexNoEpoch == batch_idx

\* line 145: step = epoch * len(train_loader) + batch_idx
TrainStepIndex ==
    epoch * LoaderLen(trainN, args.batch_size.val) + batch_idx

\* A step that places the evaluation at the start of its epoch.
TestStepIndexAtEpochStart ==
    epoch * LoaderLen(trainN, args.batch_size.val)

\* line 167: step = (epoch + 1) * len(train_loader)
TestStepIndex ==
    (epoch + 1) * LoaderLen(trainN, args.batch_size.val)

\* line 174: what the tracking store records for mlflow.log_metric(name,
\* value): log_scalar's step is not passed on
RemoteRecord(name, value, step) ==
    [name |-> name, value |-> value, step |-> DefaultStep]

(* ------------------- add_libraries_to_conda_env --------------------- *)
\* An entry of a manifest's "dependencies" list: a string, or a dict that
\* may carry the key "pip" (other holds its remaining content).
StrDep(n) == [type |-> "str", name |-> n, haspip |-> FALSE, pip |-> <<>>]
DictDep(other, haspip, pip) ==
    [type |-> "dict", name |-> other, haspip |-> haspip, pip |-> pip]

Manifest(deps) ==
    [name |-> "mlflow-env", channels |-> <<"conda-forge">>, dependencies |-> deps]

\* mlflow.pytorch.get_default_conda_env()
DefaultCondaEnv ==
    Manifest(<<StrDep("python"), StrDep("pip"), StrDep("pytorch"),
               DictDep("", TRUE, <<"mlflow", "cloudpickle">>)>>)

\* The loop of lines 208-212 without its break: the last pip dict wins.
PipIndexLast(deps) ==
    LET hits == {i \in 1..Len(deps) : deps[i].type = "dict" /\ deps[i].haspip}
    IN  IF hits = {} THEN 0 ELSE CHOOSE i \in hits : \A j \in hits : i >= j

\* lines 207-212: the index of the first element that is a dict with the
\* key "pip", or 0 for None
PipIndex(deps) ==
    LET hits == {i \in 1..Len(deps) : deps[i].type = "dict" /\ deps[i].haspip}
    IN  IF hits = {} THEN 0 ELSE CHOOSE i \in hits : \A j \in hits : i <= j

\* lines 204-215. With pip_index None, line 213 raises TypeError before
\* anything is assigned.
add_libraries_to_conda_env(_conda_env, libraries, conda_dependencies) ==
    LET dependencies == _conda_env.dependencies \o conda_dependencies
        pip_index == PipIndex(dependencies)
    IN  IF pip_index = 0
          THEN [raised |-> TRUE, env |-> _conda_env]
          ELSE [raised |-> FALSE,
                env |-> [_conda_env EXCEPT !.dependencies =
                           [dependencies EXCEPT ![pip_index].pip = @ \o libraries]]]

NoManifest == [raised |-> FALSE, env |-> Manifest(<<>>)]

NoResult == [called |-> FALSE, raised |-> FALSE, env |-> Manifest(<<>>)]

(* ---------------------- PytorchModelWrapper ------------------------- *)
NoModel == [present |-> FALSE, params |-> 0, training |-> FALSE]

\* torch.jit.script(model) / torch.jit.save / torch.jit.load: the scripted
\* module carries the parameters and the training attribute of the model.
ScriptedModel(p, t) == [present |-> TRUE, params |-> p, training |-> t]

NoCallYet == [called |-> FALSE, loaded |-> FALSE, input |-> <<>>,
              raised |-> FALSE, tensor |-> <<>>, labels |-> <<>>]

\* A row of model_input: row["images"] is valid base64 of a decodable image
\* ("ok"), malformed base64 ("bad64"), or valid base64 of bytes that are no
\* image ("badimg"); shape is the shape np.array(image) has and px stands
\* for the pixel content.
ImageRow(enc, shape, px) == [enc |-> enc, shape |-> shape, px |-> px]

Rows ==
    {ImageRow("bad64", <<>>, 0), ImageRow("badimg", <<>>, 0),
     ImageRow("ok", <<28, 28>>, 0), ImageRow("ok", <<28, 28>>, 1),
     ImageRow("ok", <<28, 44>>, 0), ImageRow("ok", <<28, 28, 3>>, 0)}

Batches == UNION {[1..n -> Rows] : n \in 0..MaxRows}

\* A loop that skips the rows that do not decode.
DecodeRowsSkipBad(batch) ==
    LET good == SelectSeq(batch, LAMBDA r : r.enc = "ok")
    IN  [raised |-> FALSE,
         arrays |-> [i \in 1..Len(good) |->
                       [shape |-> <<1>> \o good[i].shape, px |-> good[i].px]]]

\* lines 191-197: the loop over the rows. base64.b64decode or Image.open
\* raises on the first row that does not decode, and the exception leaves
\* predict; otherwise every row gives one array with a leading axis added.
DecodeRows(batch) ==
    IF \E i \in 1..Len(batch) : batch[i].enc # "ok"
      THEN [raised |-> TRUE, arrays |-> <<>>]
      ELSE [raised |-> FALSE,
            arrays |-> [i \in 1..Len(batch) |->
                          [shape |-> <<1>> \o batch[i].shape, px |-> batch[i].px]]]

\* line 198: np.stack raises on an empty list and on arrays of different
\* shapes.
StackOk(arrays) ==
    /\ arrays # <<>>
    /\ \A i \in 1..Len(arrays) : arrays[i].shape = arrays[1].shape

\* The side of a feature map after conv (kernel 5), max_pool2d(2), conv
\* (kernel 5), max_pool2d(2): lines 103-104.
ConvPool(n) == (n - KernelSize + 1) \div PoolSize
Side(n) == ConvPool(ConvPool(n))

\* The elements one image contributes to x.view(-1, 320) (line 105).
Features(shape) == Conv2Channels * Side(shape[2]) * Side(shape[3])

\* Net.forward accepts the stacked tensor: conv2d takes (N, C, H, W), the
\* feature maps are not empty and view(-1, 320) divides the elements.
ForwardOk(arrays) ==
    /\ Len(arrays[1].shape) = 3
    /\ Side(arrays[1].shape[2]) >= 1
    /\ Side(arrays[1].shape[3]) >= 1
    /\ (Len(arrays) * Features(arrays[1].shape)) % FcIn = 0

\* The rows of x after x.view(-1, 320): row j starts inside one image, and
\* is represented by that image's pixel code.
FeatureRows(arrays) ==
    LET f == Features(arrays[1].shape)
        n == (Len(arrays) * f) \div FcIn
    IN  [j \in 1..n |-> arrays[(((j - 1) * FcIn) \div f) + 1].px]

RECURSIVE Pow2(_)
Pow2(n) == IF n <= 0 THEN 1 ELSE 2 * Pow2(n - 1)

\* The output of fc2 (line 108) for class k on a feature row x, under
\* parameters p, with dropout outcome d (0: nothing dropped). The weights
\* are abstract; logits are in units of ln 2.
Logit(p, x, d, k) == ((p + 1) * (k + 1) + (x + 1) * k * k + d * (k + 2)) % 4

\* sum over the rows i..Len(xs) of 2^logit for class k: the denominator of
\* the softmax over dim 0.
RECURSIVE ColSum(_, _, _, _, _)
ColSum(p, xs, ds, k, i) ==
    IF i > Len(xs) THEN 0
    ELSE Pow2(Logit(p, xs[i], ds[i], k)) + ColSum(p, xs, ds, k, i + 1)

RECURSIVE ColSums(_, _, _, _)
ColSums(p, xs, ds, k) ==
    IF k >= NumClasses THEN <<>>
    ELSE <<ColSum(p, xs, ds, k, 1)>> \o ColSums(p, xs, ds, k + 1)

\* .max(1)[1] for one row: the first class of maximal value among the
\* classes k..NumClasses-1 and the best class b found before them. Class k
\* beats b when 2^l[k] / col[k] > 2^l[b] / col[b].
RECURSIVE ArgMax(_, _, _, _, _, _)
ArgMax(p, x, d, col, k, b) ==
    IF k >= NumClasses THEN b
    ELSE IF Pow2(Logit(p, x, d, k)) * col[b + 1]
              > Pow2(Logit(p, x, d, b)) * col[k + 1]
           THEN ArgMax(p, x, d, col, k + 1, k)
           ELSE ArgMax(p, x, d, col, k + 1, b)

\* lines 109 and 200: F.log_softmax(x, dim=0) normalises every class column
\* over the rows of the batch, and .max(1)[1] takes, per row, the first
\* class of maximal value.
Labels(p, xs, ds) ==
    LET col == ColSums(p, xs, ds, 0)
    IN  [i \in 1..Len(xs) |-> ArgMax(p, xs[i], ds[i], col, 1, 0)]

\* The number of rows dropout acts on in a call of predict (0 when the call
\* raises before the forward pass).
ForwardRows(m, batch) ==
    LET dec == DecodeRows(batch)
    IN  IF dec.raised \/ ~StackOk(dec.arrays) \/ ~m.present
           \/ ~ForwardOk(dec.arrays)
          THEN 0
          ELSE Len(FeatureRows(dec.arrays))

\* The outcomes of conv2_drop (line 104) and F.dropout(x, training=
\* self.training) (line 107) for n rows: random when the module is in
\* training mode, the identity in evaluation mode.
DropoutMasks(m, n) == IF m.training THEN [1..n -> {0, 1}] ELSE [1..n -> {0}]

\* lines 184-201: predict(context, model_input), with ds the dropout
\* outcome of its forward pass. self.model does not exist before
\* load_context (AttributeError).
predict(m, batch, ds) ==
    LET dec == DecodeRows(batch)
        err == [called |-> TRUE, loaded |-> m.present, input |-> batch,
                raised |-> TRUE, tensor |-> <<>>, labels |-> <<>>]
    IN  IF dec.raised THEN err
        ELSE IF ~StackOk(dec.arrays) THEN err
        ELSE IF ~m.present THEN err
        ELSE IF ~ForwardOk(dec.arrays) THEN err
        ELSE [called |-> TRUE, loaded |-> TRUE, input |-> batch,
              raised |-> FALSE,
              tensor |-> [i \in 1..Len(dec.arrays) |-> dec.arrays[i].px],
              labels |-> Labels(m.params, FeatureRows(dec.arrays), ds)]

Abort(why) ==
    /\ pc' = "aborted"
    /\ cause' = why

(* ----------------------------- Init --------------------------------- *)
InitState ==
    /\ pc = "parse"
    /\ cause = "none"
    /\ runStarted = FALSE
    /\ writer = "None"
    /\ training = TRUE
    /\ params = 0
    /\ optSteps = 0
    /\ epochIter = <<>>
    /\ epoch = 0
    /\ remaining = 0
    /\ enumNext = 0
    /\ batch_idx = 0
    /\ loss = 0
    /\ call = NoCall
    /\ tb = <<>>
    /\ mlf = <<>>
    /\ trace = <<>>
    /\ upEvents = 0
    /\ upModel = 0
    /\ saved = NoModel
    /\ manifest = NoManifest
    /\ registered = [scripted_model |-> NoModel, conda_env |-> Manifest(<<>>)]
    /\ wrapper = NoModel
    /\ last = NoCallYet

\* No call of add_libraries_to_conda_env from outside the script.
EnvIdle ==
    /\ envIn = Manifest(<<>>)
    /\ libsIn = <<>>
    /\ depsIn = <<>>
    /\ envOut = NoResult

\* Any command line, any training feed.
Init ==
    /\ args \in ArgSpace
    /\ trainN \in 1..MaxN
    /\ InitState
    /\ EnvIdle

\* The defaults of lines 33-48 (lr and momentum in hundredths).
DefaultArgs ==
    [batch_size |-> Tok(64), test_batch_size |-> Tok(1000),
     epochs |-> Tok(10), lr |-> Tok(1), momentum |-> Tok(50),
     enable_cuda |-> "True", seed |-> Tok(1), log_interval |-> Tok(100)]

\* The inputs of add_libraries_to_conda_env.
DepEntries ==
    {StrDep("python"), StrDep("pip"), DictDep("other", FALSE, <<>>),
     DictDep("", TRUE, <<"mlflow">>), DictDep("", TRUE, <<>>)}

SeqsUpTo(S, n) == UNION {[1..m -> S] : m \in 0..n}

\* add_libraries_to_conda_env called as a function, on any manifest.
InitEnv ==
    /\ args = DefaultArgs
    /\ trainN = 1
    /\ InitState
    /\ envIn \in {Manifest(d) : d \in SeqsUpTo(DepEntries, MaxDeps)}
    /\ libsIn \in SeqsUpTo({"Pillow", "typing-extensions"}, MaxLibs)
    /\ depsIn \in {<<>>, <<StrDep("numpy")>>}
    /\ envOut = NoResult

\* Command lines that differ in --epochs only.
ServeArgs ==
    {[batch_size |-> Tok(1), test_batch_size |-> Tok(1), epochs |-> Tok(e),
      lr |-> Tok(1), momentum |-> Tok(1), enable_cuda |-> "False",
      seed |-> Tok(1), log_interval |-> Tok(1)] : e \in {0, 1}}

InitServe ==
    /\ args \in ServeArgs
    /\ trainN = 1
    /\ InitState
    /\ EnvIdle

(* ---------------------------- actions ------------------------------- *)
\* line 49: args = parser.parse_args()
ParseArgs ==
    /\ pc = "parse"
    /\ IF ParseOk(args)
         THEN pc' = "setup" /\ UNCHANGED cause
         ELSE Abort("config")
    /\ UNCHANGED <<args, trainN, runStarted, writer, training, params,
                   optSteps, epochIter, epoch, remaining, enumNext,
                   batch_idx, loss, call, tb, mlf, trace, upEvents,
                   upModel, saved, rest>>

\* lines 51-127: seeds, data loaders, experiment, Net(), optim.SGD
Setup ==
    /\ pc = "setup"
    /\ IF SetupOk(args)
         THEN pc' = "start_run" /\ UNCHANGED cause
         ELSE Abort("config")
    /\ training' = TRUE
    /\ params' = 0
    /\ writer' = "None"
    /\ UNCHANGED <<args, trainN, runStarted, optSteps, epochIter, epoch,
                   remaining, enumNext, batch_idx, loss, call, tb, mlf,
                   trace, upEvents, upModel, saved, rest>>

\* lines 218-229: start the run, log the parameters, create the writer,
\* and build the epoch range
StartRun ==
    /\ pc = "start_run"
    /\ runStarted' = TRUE
    /\ writer' = "open"
    /\ epochIter' = EpochRange(args.epochs.val)
    /\ pc' = "epoch_loop"
    /\ UNCHANGED <<args, trainN, cause, training, params, optSteps, epoch,
                   remaining, enumNext, batch_idx, loss, call, tb, mlf,
                   trace, upEvents, upModel, saved, rest>>

\* line 229: for epoch in range(1, args.epochs + 1)
EpochLoop ==
    /\ pc = "epoch_loop"
    /\ IF epochIter = <<>>
         THEN /\ pc' = "upload_events"
              /\ UNCHANGED <<epoch, epochIter>>
         ELSE /\ pc' = "train_enter"
              /\ epoch' = Head(epochIter)
              /\ epochIter' = Tail(epochIter)
    /\ UNCHANGED <<args, trainN, cause, runStarted, writer, training, params,
                   optSteps, remaining, enumNext, batch_idx, loss, call, tb,
                   mlf, trace, upEvents, upModel, saved, rest>>

\* lines 130-132: train(epoch) switches to training mode and starts a
\* fresh pass over train_loader
TrainEnter ==
    /\ pc = "train_enter"
    /\ training' = TRUE
    /\ remaining' = trainN
    /\ enumNext' = 0
    /\ pc' = "train_iter"
    /\ UNCHANGED <<args, trainN, cause, runStarted, writer, params, optSteps,
                   epochIter, epoch, batch_idx, loss, call, tb, mlf, trace,
                   upEvents, upModel, saved, rest>>

\* line 132: enumerate(train_loader) yields the next batch, or ends; when it
\* ends train returns and line 231 calls test(epoch)
TrainIter ==
    /\ pc = "train_iter"
    /\ IF remaining = 0
         THEN /\ pc' = "test"
              /\ UNCHANGED <<remaining, enumNext, batch_idx>>
         ELSE /\ pc' = "train_step"
              /\ remaining' = remaining - NextBatch(remaining, args.batch_size.val)
              /\ batch_idx' = enumNext
              /\ enumNext' = enumNext + 1
    /\ UNCHANGED <<args, trainN, cause, runStarted, writer, training, params,
                   optSteps, epochIter, epoch, loss, call, tb, mlf, trace,
                   upEvents, upModel, saved, rest>>

\* lines 133-140: zero_grad, forward, nll_loss, backward, optimizer.step
TrainStep ==
    /\ pc = "train_step"
    /\ loss' = params
    /\ params' = params + 1
    /\ optSteps' = optSteps + 1
    /\ trace' = Append(trace, [op |-> "batch", epoch |-> epoch])
    /\ pc' = "log_check"
    /\ UNCHANGED <<args, trainN, cause, runStarted, writer, training,
                   epochIter, epoch, remaining, enumNext, batch_idx, call,
                   tb, mlf, upEvents, upModel, saved, rest>>

\* lines 141-146: if batch_idx % args.log_interval == 0, compute the step
\* and call log_scalar('train_loss', ...)
LogCheck ==
    /\ pc = "log_check"
    /\ IF args.log_interval.val = 0
         THEN Abort("config") /\ UNCHANGED call
         ELSE /\ UNCHANGED cause
              /\ IF PyMod(batch_idx, args.log_interval.val) = 0
                   THEN /\ call' = [name |-> "train_loss", value |-> loss,
                                    step |-> TrainStepIndex,
                                    ret |-> "log_weights"]
                        /\ pc' = "add_scalar"
                   ELSE /\ pc' = "train_iter"
                        /\ UNCHANGED call
    /\ UNCHANGED <<args, trainN, runStarted, writer, training, params,
                   optSteps, epochIter, epoch, remaining, enumNext,
                   batch_idx, loss, tb, mlf, trace, upEvents, upModel, saved, rest>>

\* line 173: writer.add_scalar(name, value, step)
AddScalar ==
    /\ pc = "add_scalar"
    /\ tb' = Append(tb, [kind |-> "scalar", name |-> call.name,
                         value |-> call.value, step |-> call.step])
    /\ pc' = "log_metric"
    /\ UNCHANGED <<args, trainN, cause, runStarted, writer, training, params,
                   optSteps, epochIter, epoch, remaining, enumNext,
                   batch_idx, loss, call, mlf, trace, upEvents, upModel,
                   saved, rest>>

\* line 174: mlflow.log_metric(name, value); log_scalar then returns
LogMetric ==
    /\ pc = "log_metric"
    /\ mlf' = Append(mlf, RemoteRecord(call.name, call.value, call.step))
    /\ pc' = call.ret
    /\ call' = NoCall
    /\ UNCHANGED <<args, trainN, cause, runStarted, writer, training, params,
                   optSteps, epochIter, epoch, remaining, enumNext,
                   batch_idx, loss, tb, trace, upEvents, upModel, saved, rest>>

\* lines 147 and 111-119: model.log_weights(step), eight add_histogram calls
LogWeights ==
    /\ pc = "log_weights"
    /\ tb' = tb \o [i \in 1..Len(HistogramNames) |->
                      [kind |-> "histogram", name |-> HistogramNames[i],
                       value |-> params, step |-> TrainStepIndex]]
    /\ pc' = "train_iter"
    /\ UNCHANGED <<args, trainN, cause, runStarted, writer, training, params,
                   optSteps, epochIter, epoch, remaining, enumNext,
                   batch_idx, loss, call, mlf, trace, upEvents, upModel,
                   saved, rest>>

\* lines 149-168: test(epoch) switches to evaluation mode, evaluates the
\* model over test_loader without touching the parameters, and calls
\* log_scalar('test_loss', ...)
Test ==
    /\ pc = "test"
    /\ training' = FALSE
    /\ trace' = Append(trace, [op |-> "eval", epoch |-> epoch])
    /\ call' = [name |-> "test_loss", value |-> params,
                step |-> TestStepIndex, ret |-> "test_accuracy"]
    /\ pc' = "add_scalar"
    /\ UNCHANGED <<args, trainN, cause, runStarted, writer, params, optSteps,
                   epochIter, epoch, remaining, enumNext, batch_idx, loss,
                   tb, mlf, upEvents, upModel, saved, rest>>

\* line 169: log_scalar('test_accuracy', test_accuracy, step); test then
\* returns to the epoch loop
TestAccuracy ==
    /\ pc = "test_accuracy"
    /\ call' = [name |-> "test_accuracy", value |-> params,
                step |-> TestStepIndex, ret |-> "epoch_loop"]
    /\ pc' = "add_scalar"
    /\ UNCHANGED <<args, trainN, cause, runStarted, writer, training, params,
                   optSteps, epochIter, epoch, remaining, enumNext,
                   batch_idx, loss, tb, mlf, trace, upEvents, upModel,
                   saved, rest>>

\* line 235: mlflow.log_artifacts(output_dir, artifact_path="events")
UploadEvents ==
    /\ pc = "upload_events"
    /\ upEvents' = upEvents + 1
    /\ pc' = "script_save"
    /\ UNCHANGED <<args, trainN, cause, runStarted, writer, training, params,
                   optSteps, epochIter, epoch, remaining, enumNext,
                   batch_idx, loss, call, tb, mlf, trace, upModel, saved, rest>>

\* lines 241-246: torch.jit.script(model), torch.jit.save; the scripted
\* module keeps the parameters and the training flag of the model
ScriptSave ==
    /\ pc = "script_save"
    /\ saved' = ScriptedModel(params, training)
    /\ manifest' = add_libraries_to_conda_env(
                       DefaultCondaEnv, <<"typing-extensions", "Pillow">>, <<>>)
    /\ pc' = "log_model"
    /\ UNCHANGED <<args, trainN, cause, runStarted, writer, training, params,
                   optSteps, epochIter, epoch, remaining, enumNext,
                   batch_idx, loss, call, tb, mlf, trace, upEvents, upModel,
                   registered, serveVars, envVars>>

\* Line 247 live as well: the model is logged under "pytorch-model" twice.
LogModelTwice ==
    /\ pc = "log_model"
    /\ upModel' = upModel + 2
    /\ registered' = [scripted_model |-> saved, conda_env |-> manifest.env]
    /\ pc' = "report"
    /\ UNCHANGED <<args, trainN, cause, runStarted, writer, training, params,
                   optSteps, epochIter, epoch, remaining, enumNext,
                   batch_idx, loss, call, tb, mlf, trace, upEvents, saved,
                   manifest, serveVars, envVars>>

\* line 248: mlflow.pyfunc.log_model("pytorch-model", ...)
LogModel ==
    /\ pc = "log_model"
    /\ upModel' = upModel + 1
    /\ registered' = [scripted_model |-> saved, conda_env |-> manifest.env]
    /\ pc' = "report"
    /\ UNCHANGED <<args, trainN, cause, runStarted, writer, training, params,
                   optSteps, epochIter, epoch, remaining, enumNext,
                   batch_idx, loss, call, tb, mlf, trace, upEvents, saved,
                   manifest, serveVars, envVars>>

\* lines 249-251: print the artifact URI of the logged model; the with
\* block then ends the run
Report ==
    /\ pc = "report"
    /\ pc' = "done"
    /\ UNCHANGED <<args, trainN, cause, runStarted, writer, training, params,
                   optSteps, epochIter, epoch, remaining, enumNext,
                   batch_idx, loss, call, tb, mlf, trace, upEvents, upModel,
                   saved, rest>>

\* An unhandled exception raised by a collaborator (data loader, device,
\* tracking service, file system) at any statement: nothing catches it, the
\* with block of line 218 ends the run and the process exits.
Running ==
    {"setup", "start_run", "epoch_loop", "train_enter", "train_iter",
     "train_step", "log_check", "add_scalar", "log_metric", "log_weights",
     "test", "test_accuracy", "upload_events", "script_save", "log_model",
     "report"}

Fail ==
    /\ pc \in Running
    /\ Abort("external")
    /\ UNCHANGED <<args, trainN, runStarted, writer, training, params,
                   optSteps, epochIter, epoch, remaining, enumNext,
                   batch_idx, loss, call, tb, mlf, trace, upEvents, upModel,
                   saved, rest>>

(* ---------------------- serving the logged model -------------------- *)
\* lines 178-182: load_context reads the scripted_model artifact of the
\* logged model
LoadContext ==
    /\ pc = "done"
    /\ wrapper' = registered.scripted_model
    /\ UNCHANGED <<runVars, last, envVars>>

\* lines 184-201: predict on any batch
Predict ==
    /\ pc = "done"
    /\ \E batch \in Batches :
         \E ds \in DropoutMasks(wrapper, ForwardRows(wrapper, batch)) :
            last' = predict(wrapper, batch, ds)
    /\ UNCHANGED <<runVars, wrapper, envVars>>

NextRun ==
    \/ ParseArgs
    \/ Setup
    \/ StartRun
    \/ EpochLoop
    \/ TrainEnter
    \/ TrainIter
    \/ TrainStep
    \/ LogCheck
    \/ AddScalar
    \/ LogMetric
    \/ LogWeights
    \/ Test
    \/ TestAccuracy
    \/ UploadEvents
    \/ ScriptSave
    \/ LogModel
    \/ Report
    \/ Fail

\* lines 204-215: one call add_libraries_to_conda_env(envIn, libsIn, depsIn)
MergeEnv ==
    /\ ~envOut.called
    /\ LET r == add_libraries_to_conda_env(envIn, libsIn, depsIn)
       IN  envOut' = [called |-> TRUE, raised |-> r.raised, env |-> r.env]
    /\ UNCHANGED <<runVars, serveVars, envIn, libsIn, depsIn>>

\* The training script, run on any command line.
Spec == Init /\ [][NextRun]_vars

\* The training script followed by the serving of the model it logged, on
\* command lines that parse and construct.
NextServe ==
    \/ NextRun
    \/ LoadContext
    \/ Predict

SpecServe == InitServe /\ [][NextServe]_vars

\* The manifest merge as a pure function of its arguments.
NextEnv == MergeEnv

SpecEnv == InitEnv /\ [][NextEnv]_vars


(* ============================ properties ============================ *)
Terminated == pc \in {"done", "aborted"}

\* The scalar calls the SummaryWriter received, as (name, value, step).
RECURSIVE ScalarsOf(_)
ScalarsOf(q) ==
    IF q = <<>> THEN <<>>
    ELSE IF Head(q).kind = "scalar"
           THEN <<[name |-> Head(q).name, value |-> Head(q).value,
                   step |-> Head(q).step]>> \o ScalarsOf(Tail(q))
           ELSE ScalarsOf(Tail(q))

\* The logging occasions, in order: a logged training batch is marked by its
\* train_loss scalar, an evaluation pass by its test_loss scalar.
Occasions ==
    SelectSeq(ScalarsOf(tb), LAMBDA r : r.name \in {"train_loss", "test_loss"})

CountNamed(q, n) == Len(SelectSeq(q, LAMBDA r : r.name = n))

CountOps(o, e) == Len(SelectSeq(trace, LAMBDA r : r.op = o /\ r.epoch = e))

\* ceil(n / b) for b >= 1, without the loader's formula.
Ceil(n, b) == CHOOSE q \in 0..n : q * b >= n /\ (q - 1) * b < n

(* C1: the step values passed to the event writer (train_loss scalars and  *)
(* weight histograms of train, test_loss and test_accuracy scalars of      *)
(* test) never decrease in call order.                                     *)
C1_StepsNonDecreasing ==
    \A i \in 1..Len(tb) : \A j \in i..Len(tb) : tb[i].step <= tb[j].step

C1_Witness ==
    /\ pc = "done"
    /\ args.epochs.val >= 2
    /\ \E i \in 1..Len(tb) : \E j \in (i + 1)..Len(tb) :
          /\ tb[i].name = "test_accuracy"
          /\ tb[j].kind = "histogram"
          /\ tb[i].step < tb[j].step

(* C2, as stated: every logging occasion uses a step strictly greater than *)
(* the step of the logging occasion before it.                             *)
C2_OccasionsStrictlyIncreasing ==
    \A i \in 1..(Len(Occasions) - 1) : Occasions[i].step < Occasions[i + 1].step

(* C2, amended: every logging occasion uses a step greater than or equal   *)
(* to the step of the occasion before it, and equal only when the occasion *)
(* before it is an evaluation pass and the occasion itself is the logged   *)
(* training batch of index 0 of the next epoch.                            *)
C2_OccasionsIncreasingButAtEpochStart ==
    \A i \in 1..(Len(Occasions) - 1) :
       \/ Occasions[i].step < Occasions[i + 1].step
       \/ /\ Occasions[i].step = Occasions[i + 1].step
          /\ Occasions[i].name = "test_loss"
          /\ Occasions[i + 1].name = "train_loss"
          /\ Occasions[i + 1].step % LoaderLen(trainN, args.batch_size.val) = 0

C2_Witness ==
    /\ pc = "done"
    /\ \E i \in 1..(Len(Occasions) - 1) :
          /\ Occasions[i].name = "test_loss"
          /\ Occasions[i + 1].name = "train_loss"
          /\ Occasions[i].step = Occasions[i + 1].step
    /\ \E i \in 1..(Len(Occasions) - 1) :
          /\ Occasions[i].name = "train_loss"
          /\ Occasions[i + 1].name = "train_loss"

(* C3: a run that completes executes exactly ceil(N/B) training batches    *)
(* per epoch, each with one optimizer step, runs the evaluation once per   *)
(* epoch and only after that epoch's last training batch, and emits one    *)
(* test_loss and one test_accuracy event per epoch.                        *)
C3_BatchesAndEvaluationsPerEpoch ==
    LET B == args.batch_size.val
        E == IF args.epochs.val > 0 THEN args.epochs.val ELSE 0
    IN  /\ \A j \in 1..Len(trace) :
              trace[j].op = "eval" =>
                 /\ Len(SelectSeq(SubSeq(trace, 1, j - 1),
                        LAMBDA r : r.op = "batch" /\ r.epoch = trace[j].epoch))
                      = Ceil(trainN, B)
                 /\ \A k \in (j + 1)..Len(trace) :
                       trace[k].epoch # trace[j].epoch
        /\ pc = "done" =>
              /\ \A e \in 1..E : /\ CountOps("batch", e) = Ceil(trainN, B)
                                 /\ CountOps("eval", e) = 1
              /\ Len(trace) = E * (Ceil(trainN, B) + 1)
              /\ optSteps = E * Ceil(trainN, B)
              /\ CountNamed(ScalarsOf(tb), "test_loss") = E
              /\ CountNamed(ScalarsOf(tb), "test_accuracy") = E
              /\ CountNamed(mlf, "test_loss") = E
              /\ CountNamed(mlf, "test_accuracy") = E

C3_Witness ==
    /\ pc = "done"
    /\ args.epochs.val = 2
    /\ args.batch_size.val = 2
    /\ trainN = 3
    /\ CountOps("batch", 2) = 2
    /\ CountOps("eval", 2) = 1

(* C4: a run with epochs = 0 performs no optimizer step (the parameters    *)
(* serialized are the initial ones), emits no train_loss, test_loss or     *)
(* test_accuracy event, and still creates the event writer, uploads the    *)
(* events directory and registers the pytorch-model artifact.              *)
C4_ZeroEpochs ==
    (pc = "done" /\ args.epochs.val = 0) =>
        /\ optSteps = 0
        /\ saved = ScriptedModel(0, saved.training)
        /\ registered.scripted_model = saved
        /\ ScalarsOf(tb) = <<>>
        /\ mlf = <<>>
        /\ writer = "open"
        /\ upEvents = 1
        /\ upModel = 1

C4_Witness ==
    /\ pc = "done"
    /\ args.epochs.val = 0
    /\ upModel = 1

(* C5, as stated: after load_context, two predict calls with an identical  *)
(* input batch return identical label arrays, for the model logged by any  *)
(* completed run, the run with epochs = 0 included.                        *)
C5_PredictIdempotent ==
    [][(last.called /\ last.loaded /\ last'.loaded /\ ~last.raised
          /\ last'.input = last.input)
       => last'.labels = last.labels]_vars

(* C6, as stated: once a log_scalar call has returned, the event writer    *)
(* and the tracking store hold the same scalar records, name, value and    *)
(* step, record for record.                                                *)
C6_SinksAgree ==
    call = NoCall => ScalarsOf(tb) = mlf

(* C7, as stated: in every terminated run, completed or aborted, either    *)
(* both artifact groups have been uploaded, each once, or neither has.     *)
C7_UploadAtomic ==
    Terminated => \/ upEvents = 1 /\ upModel = 1
                  \/ upEvents = 0 /\ upModel = 0

(* C7, amended: a completed run has uploaded both artifact groups, each    *)
(* exactly once; no run uploads a group twice or uploads the pytorch-model *)
(* group without having uploaded the events group; a run aborted between   *)
(* the two uploads keeps the events group alone.                           *)
C7_UploadOrdered ==
    /\ upModel <= upEvents
    /\ upEvents <= 1
    /\ pc = "done" => upEvents = 1 /\ upModel = 1

C7_Witness ==
    /\ pc = "aborted"
    /\ upEvents = 1
    /\ upModel = 0
    /\ saved.present

(* C8, as stated: a run that a command-line value makes fail aborts before *)
(* the tracking run is started, before any optimizer step and before any   *)
(* event is emitted.                                                       *)
C8_ConfigErrorAtStartup ==
    (pc = "aborted" /\ cause = "config") =>
        /\ ~runStarted
        /\ optSteps = 0
        /\ tb = <<>>
        /\ mlf = <<>>

(* C9: add_libraries_to_conda_env(env, libraries), on a manifest with at   *)
(* least one dict with a "pip" key among its dependencies, returns the     *)
(* manifest with the libraries appended, in order, to the pip list of the  *)
(* first such dict, and everything else as it was: the other keys, the     *)
(* other entries, their order, and any later pip dict.                     *)
C9_MergeAppendsToFirstPip ==
    LET din == envIn.dependencies
        dout == envOut.env.dependencies
        pips == {i \in 1..Len(din) : din[i].type = "dict" /\ din[i].haspip}
    IN  (envOut.called /\ depsIn = <<>> /\ pips # {}) =>
           /\ ~envOut.raised
           /\ envOut.env.name = envIn.name
           /\ envOut.env.channels = envIn.channels
           /\ Len(dout) = Len(din)
           /\ \A i \in 1..Len(din) :
                 IF i \in pips /\ \A j \in pips : i <= j
                   THEN dout[i] = [din[i] EXCEPT !.pip = din[i].pip \o libsIn]
                   ELSE dout[i] = din[i]

C9_Witness ==
    /\ envOut.called
    /\ depsIn = <<>>
    /\ libsIn = <<"Pillow", "typing-extensions">>
    /\ Len(envIn.dependencies) = 3
    /\ envIn.dependencies[1] = StrDep("pip")
    /\ envIn.dependencies[2] = DictDep("", TRUE, <<"mlflow">>)
    /\ envIn.dependencies[3] = DictDep("", TRUE, <<>>)
    /\ envOut.env.dependencies[2].pip = <<"mlflow", "Pillow", "typing-extensions">>

\* Every row of the batch decodes: valid base64 of a decodable image.
AllDecode(batch) == \A i \in 1..Len(batch) : batch[i].enc = "ok"

=============================================================================
